---- MODULE Spec2Model ----
(***************************************************************************)
(* Model of backend.py (CreditPathAI API): the preprocessing pipeline      *)
(* preprocess_api_data, the risk mapping map_risk_action, and the two      *)
(* handlers predict (POST /predict) and get_logs (GET /logs) together with *)
(* the predictions log they share.                                         *)
(*                                                                         *)
(* Python strings whose characters the code inspects (emp_length, term)    *)
(* are sequences of one-character strings.  Probabilities are integers in  *)
(* units of 1/10000, so 0.3 is 3000 and 0.7 is 7000.                        *)
(***************************************************************************)
EXTENDS Integers, Sequences, FiniteSets, TLC

VARIABLES
    feature_cols,   \* trained column list loaded at startup (line 20)
    scaler,         \* fitted scaler loaded at startup (line 19)
    lgb_model,      \* trained classifier loaded at startup (line 18)
    log,            \* lines of logs/predictions.log, oldest first
    req,            \* the request being answered
    resp,           \* the response sent for req
    calls,          \* stages of predict that ran for req
    data,           \* predict's table of submitted records (line 207)
    df,             \* the table returned by preprocess_api_data (line 213)
    probs,          \* the classifier's probabilities for req (line 214)
    raised,         \* the exception a library call raised while serving req
    x,              \* argument of clean_emp_length
    emp             \* value returned by clean_emp_length

vars ==
    <<feature_cols, scaler, lgb_model, log, req, resp, calls, data, df, probs, raised, x, emp>>

None == "None"

-----------------------------------------------------------------------------
(* Python string primitives used by the preprocessing code.                *)

Digits == <<"0", "1", "2", "3", "4", "5", "6", "7", "8", "9">>

IsDigit(c) == \E i \in 1..Len(Digits) : Digits[i] = c

DigitVal(c) == (CHOOSE i \in 1..Len(Digits) : Digits[i] = c) - 1

IsSpace(c) == c = " "

\* `sub in s`
Contains(s, sub) ==
    \E i \in 0..(Len(s) - Len(sub)) : SubSeq(s, i + 1, i + Len(sub)) = sub

RECURSIVE LStrip(_)
LStrip(s) == IF s # <<>> /\ IsSpace(Head(s)) THEN LStrip(Tail(s)) ELSE s

RECURSIVE RStrip(_)
RStrip(s) ==
    IF s # <<>> /\ IsSpace(s[Len(s)]) THEN RStrip(SubSeq(s, 1, Len(s) - 1)) ELSE s

Strip(s) == LStrip(RStrip(s))

RECURSIVE TakeToken(_)
TakeToken(s) ==
    IF s = <<>> \/ IsSpace(Head(s)) THEN <<>> ELSE <<Head(s)>> \o TakeToken(Tail(s))

\* s.split(): the whitespace-separated tokens of s
RECURSIVE Split(_)
Split(s) ==
    LET t == LStrip(s)
        tok == TakeToken(t)
    IN IF t = <<>> THEN <<>>
       ELSE <<tok>> \o Split(SubSeq(t, Len(tok) + 1, Len(t)))

RECURSIVE DecimalValue(_)
DecimalValue(ds) ==
    IF ds = <<>> THEN 0
    ELSE 10 * DecimalValue(SubSeq(ds, 1, Len(ds) - 1)) + DigitVal(ds[Len(ds)])

\* int(s): surrounding whitespace is ignored, then an optional sign and one
\* or more digits; anything else raises ValueError.
IntBody(s) ==
    LET t == Strip(s) IN
    IF t # <<>> /\ (Head(t) = "+" \/ Head(t) = "-") THEN Tail(t) ELSE t

IntParses(s) ==
    /\ IntBody(s) # <<>>
    /\ \A i \in 1..Len(IntBody(s)) : IsDigit(IntBody(s)[i])

IntOf(s) ==
    IF Strip(s) # <<>> /\ Head(Strip(s)) = "-"
    THEN 0 - DecimalValue(IntBody(s))
    ELSE DecimalValue(IntBody(s))

\* s.replace(old, "")
RECURSIVE Remove(_, _)
Remove(s, old) ==
    IF Len(s) < Len(old) THEN s
    ELSE IF SubSeq(s, 1, Len(old)) = old
         THEN Remove(SubSeq(s, Len(old) + 1, Len(s)), old)
         ELSE <<Head(s)>> \o Remove(Tail(s), old)

RECURSIVE Join(_)
Join(s) == IF s = <<>> THEN "" ELSE Head(s) \o Join(Tail(s))

-----------------------------------------------------------------------------
(* clean_emp_length, lines 82-90                                           *)

\* The mutation drops the "10+" branch, so "10+ years" falls to int("10+").
clean_emp_length_no10(v) ==
    IF Contains(v, <<"<">>) /\ Contains(v, <<"1">>) THEN 0
    ELSE IF Split(v) # <<>> /\ IntParses(Split(v)[1]) THEN IntOf(Split(v)[1])
    ELSE 0

clean_emp_length(v) ==
    IF Contains(v, <<"<">>) /\ Contains(v, <<"1">>) THEN 0
    ELSE IF Contains(v, <<"1", "0", "+">>) THEN 10
    ELSE IF Split(v) # <<>> /\ IntParses(Split(v)[1]) THEN IntOf(Split(v)[1])
    ELSE 0

-----------------------------------------------------------------------------
(* Tables (pandas DataFrame).  A table is [columns, rows]: the ordered     *)
(* column names and one function column -> cell per row.  A cell carries   *)
(* its dtype: [s |-> chars] object, [i |-> n] int64, [f |-> n] float64,    *)
(* [b |-> TRUE/FALSE] bool, [nan |-> TRUE] a float64 NaN.                  *)

Str(chars) == [s |-> chars]
Int64(n) == [i |-> n]
Float64(n) == [f |-> n]
Bool(v) == [b |-> v]
NaN == [nan |-> TRUE]

IsObject(cell) == DOMAIN cell = {"s"}
IsNumeric(cell) == DOMAIN cell \in {{"i"}, {"f"}, {"nan"}}
IsNull(cell) == DOMAIN cell = {"nan"}
NumVal(cell) == IF DOMAIN cell = {"i"} THEN cell.i ELSE cell.f

Range(seq) == {seq[k] : k \in 1..Len(seq)}

RECURSIVE SelectCols(_, _)
SelectCols(cols, keep) ==
    IF cols = <<>> THEN <<>>
    ELSE (IF Head(cols) \in keep THEN <<Head(cols)>> ELSE <<>>)
         \o SelectCols(Tail(cols), keep)

\* class Borrower, lines 54-77: the fields the pipeline treats differently
\* (an identifier, an amount, the term, a categorical, the employment
\* length), in the order of the class.
BorrowerFields == <<"loan_id", "loan_amnt", "term", "grade", "emp_length">>

\* pd.DataFrame([b.dict() for b in borrowers]), line 207
DataFrame(borrowers) ==
    [columns |-> IF borrowers = <<>> THEN <<>> ELSE BorrowerFields,
     rows |-> borrowers]

\* The mutation validates the first record only.
HasNullFirst(t) ==
    t.rows # <<>> /\ \E c \in Range(t.columns) : IsNull(t.rows[1][c])

\* data.isnull().sum().sum() > 0, line 210
HasNull(t) ==
    \E r \in 1..Len(t.rows) : \E c \in Range(t.columns) : IsNull(t.rows[r][c])

\* df[col] = df[col].apply(f) / column assignment
SetColumn(t, col, newcells) ==
    [t EXCEPT !.rows = [r \in 1..Len(t.rows) |->
                           [t.rows[r] EXCEPT ![col] = newcells[r]]]]

\* lines 96-97
ApplyEmpLength(t) ==
    IF "emp_length" \in Range(t.columns)
    THEN SetColumn(t, "emp_length",
             [r \in 1..Len(t.rows) |->
                 Int64(clean_emp_length(t.rows[r]["emp_length"].s))])
    ELSE t

MonthsSuffix == <<" ", "m", "o", "n", "t", "h", "s">>

\* lines 99-105: the suffix is removed from every value, then the whole
\* column is converted by astype(int), which raises (and is ignored) as
\* soon as one value of the column does not parse.
ApplyTerm(t) ==
    IF "term" \in Range(t.columns)
    THEN LET stripped == [r \in 1..Len(t.rows) |->
                             Remove(t.rows[r]["term"].s, MonthsSuffix)]
         IN IF \A r \in 1..Len(t.rows) : IntParses(stripped[r])
            THEN SetColumn(t, "term",
                     [r \in 1..Len(t.rows) |-> Int64(IntOf(stripped[r]))])
            ELSE SetColumn(t, "term",
                     [r \in 1..Len(t.rows) |-> Str(stripped[r])])
    ELSE t

\* line 108
DropText(t) ==
    LET keep == Range(t.columns) \ {"address", "emp_title", "title"}
    IN [columns |-> SelectCols(t.columns, keep),
        rows |-> [r \in 1..Len(t.rows) |-> [c \in keep |-> t.rows[r][c]]]]

\* dtype of a column: that of its cells (a table without rows has no
\* columns, line 207)
ColIsNumeric(t, c) == t.rows # <<>> /\ IsNumeric(t.rows[1][c])
ColIsObject(t, c) == t.rows # <<>> /\ IsObject(t.rows[1][c])

\* line 111
NumCols(t) ==
    SelectCols(t.columns, {c \in Range(t.columns) : ColIsNumeric(t, c)})

\* lines 112-117: scaler.transform raises when the numeric columns are not
\* the columns the scaler was fitted on, and the table is then left as is.
Scale(t, sc) ==
    IF NumCols(t) # <<>> /\ NumCols(t) = sc.names
    THEN [t EXCEPT !.rows = [r \in 1..Len(t.rows) |->
             [c \in Range(t.columns) |->
                 IF c \in Range(sc.names) /\ ~IsNull(t.rows[r][c])
                 THEN Float64(NumVal(t.rows[r][c]) - sc.mean[c])
                 ELSE t.rows[r][c]]]]
    ELSE t

-----------------------------------------------------------------------------
(* pd.get_dummies, line 120: every object column is replaced by one bool   *)
(* indicator column per distinct value, named <column>_<value>, the values *)
(* in sorted order; the other columns come first, in their order.          *)

\* the characters of the modelled strings, in code-point order
Ascii ==
    <<" ", "+", "-", "0", "1", "2", "3", "4", "5", "6", "7", "8", "9",
      "<", "A", "B", "C", "D", "E", "F", "G", "H", "I", "J", "K", "L",
      "M", "N", "O", "P", "Q", "R", "S", "T", "U", "V", "W", "X", "Y",
      "Z", "_", "a", "b", "c", "d", "e", "f", "g", "h", "i", "j", "k",
      "l", "m", "n", "o", "p", "q", "r", "s", "t", "u", "v", "w", "x",
      "y", "z">>

Ord(c) == CHOOSE k \in 1..Len(Ascii) : Ascii[k] = c

RECURSIVE StrLess(_, _)
StrLess(a, b) ==
    IF b = <<>> THEN FALSE
    ELSE IF a = <<>> THEN TRUE
    ELSE IF Head(a) = Head(b) THEN StrLess(Tail(a), Tail(b))
    ELSE Ord(Head(a)) < Ord(Head(b))

RECURSIVE SortStrs(_)
SortStrs(S) ==
    IF S = {} THEN <<>>
    ELSE LET m == CHOOSE a \in S : \A b \in S \ {a} : StrLess(a, b)
         IN <<m>> \o SortStrs(S \ {m})

ColumnValues(t, c) == {t.rows[r][c].s : r \in 1..Len(t.rows)}

DummyName(c, v) == c \o "_" \o Join(v)

\* the indicator columns of object column c: <<name, column, value>>
DummiesOf(t, c) ==
    LET vs == SortStrs(ColumnValues(t, c))
    IN [k \in 1..Len(vs) |-> <<DummyName(c, vs[k]), c, vs[k]>>]

RECURSIVE AllDummies(_, _)
AllDummies(t, cols) ==
    IF cols = <<>> THEN <<>>
    ELSE (IF ColIsObject(t, Head(cols)) THEN DummiesOf(t, Head(cols)) ELSE <<>>)
         \o AllDummies(t, Tail(cols))

GetDummies(t) ==
    LET kept == SelectCols(t.columns,
                    {c \in Range(t.columns) : ~ColIsObject(t, c)})
        dums == AllDummies(t, t.columns)
        names == [k \in 1..Len(dums) |-> dums[k][1]]
    IN [columns |-> kept \o names,
        rows |-> [r \in 1..Len(t.rows) |->
            [c \in Range(kept) \cup Range(names) |->
                IF c \in Range(kept) THEN t.rows[r][c]
                ELSE LET d == CHOOSE k \in 1..Len(dums) : dums[k][1] = c
                     IN Bool(t.rows[r][dums[d][2]].s = dums[d][3])]]]

\* lines 121-123: trained columns the table lacks are appended, filled with 0
RECURSIVE AddMissing(_, _)
AddMissing(t, cols) ==
    IF cols = <<>> THEN t
    ELSE IF Head(cols) \in Range(t.columns) THEN AddMissing(t, Tail(cols))
    ELSE AddMissing(
            [columns |-> Append(t.columns, Head(cols)),
             rows |-> [r \in 1..Len(t.rows) |->
                          [c \in Range(t.columns) \cup {Head(cols)} |->
                              IF c = Head(cols) THEN Int64(0) ELSE t.rows[r][c]]]],
            Tail(cols))

\* The mutation keeps the table's own columns: no selection by the list.
SelectNothing(t, cols) == t

\* line 124: df[feature_cols]
Select(t, cols) ==
    [columns |-> cols,
     rows |-> [r \in 1..Len(t.rows) |-> [c \in Range(cols) |-> t.rows[r][c]]]]

\* lines 96-105: the two value normalisations
Normalize(t) == ApplyTerm(ApplyEmpLength(t))

\* lines 107-124: pruning, scaling, encoding and schema alignment
Align(t, sc, fcols) ==
    Select(AddMissing(GetDummies(Scale(DropText(t), sc)), fcols), fcols)

\* preprocess_api_data, lines 81-125
preprocess_api_data(t, sc, fcols) == Align(Normalize(t), sc, fcols)

-----------------------------------------------------------------------------
(* map_risk_action, lines 129-135, and the rounding of line 221            *)

\* The mutation uses closed upper boundaries.
map_risk_action_closed(prob) ==
    IF prob <= 3000 THEN <<"Low risk", "Send reminder">>
    ELSE IF prob <= 7000 THEN <<"Medium risk", "Call borrower">>
    ELSE <<"High risk", "Prioritize collection / restructure loan">>

map_risk_action(prob) ==
    IF prob < 3000 THEN <<"Low risk", "Send reminder">>
    ELSE IF prob < 7000 THEN <<"Medium risk", "Call borrower">>
    ELSE <<"High risk", "Prioritize collection / restructure loan">>

\* round(float(prob), 3): to the nearest multiple of 0.001, a tie to the
\* even neighbour
Round3(prob) ==
    LET q == prob \div 10
        r == prob % 10
    IN 10 * (IF r > 5 \/ (r = 5 /\ q % 2 = 1) THEN q + 1 ELSE q)

-----------------------------------------------------------------------------
(* Bounds and input samples                                                *)

MaxBatch == 2       \* records per request body
MaxLog == 2         \* log lines written by predict
MaxPreBatch == 2    \* rows of a table given to preprocess_api_data alone
MaxEmpLen == 4      \* characters of an emp_length value
MaxLogLines == 101  \* lines of a log file found at startup

RECURSIVE SeqsUpTo(_, _)
SeqsUpTo(S, n) ==
    IF n = 0 THEN {<<>>}
    ELSE LET shorter == SeqsUpTo(S, n - 1)
         IN shorter \cup {Append(q, e) : q \in {u \in shorter : Len(u) = n - 1}, e \in S}

T36 == <<"3", "6", " ", "m", "o", "n", "t", "h", "s">>
T60 == <<"6", "0", " ", "m", "o", "n", "t", "h", "s">>
TLead36 == <<" ", "3", "6", " ", "m", "o", "n", "t", "h", "s">>
TAbc == <<"a", "b", "c">>
TermSamples == {T36, TLead36, TAbc}

E10 == <<"1", "0", "+", " ", "y", "e", "a", "r", "s">>
ELt1 == <<"<", " ", "1", " ", "y", "e", "a", "r">>
E5 == <<"5", " ", "y", "e", "a", "r", "s">>
EmpAlphabet == {"<", "1", "0", "+", "-", "5", " ", "y"}
EmpStrings == SeqsUpTo(EmpAlphabet, MaxEmpLen) \cup {E10, ELt1, E5}

GradeSamples == {<<"A">>, <<"B">>}

Borrower(id, amnt, term, grade, emplen) ==
    [loan_id |-> id, loan_amnt |-> amnt, term |-> term, grade |-> grade,
     emp_length |-> emplen]

\* records given to preprocess_api_data alone
PreRecords ==
    {Borrower(Str(<<"L", "1">>), Float64(100), Str(t), Str(g), Str(e)) :
        t \in TermSamples, g \in GradeSamples, e \in {E10, E5}}

\* a JSON object of a request body may lack a field or carry null for it
Missing == [missing |-> TRUE]
JsonNull == [null |-> TRUE]

J1 == Borrower(Str(<<"L", "1">>), Float64(100), Str(T36), Str(<<"A">>), Str(E10))
J2 == Borrower(Str(<<"L", "2">>), Float64(250), Str(T60), Str(<<"C">>), Str(ELt1))
JNaN == [J1 EXCEPT !.loan_amnt = NaN]
JAbsent == [J2 EXCEPT !.grade = Missing, !.loan_amnt = JsonNull]
BodySamples == {J1, J2, JNaN, JAbsent}

\* the x-user-email header: absent, or its value
Headers == {<<>>, <<"alice">>}

\* contents of feature_columns.pkl and scaler.pkl
TrainedCols == <<"loan_amnt", "term", "emp_length", "grade_B", "grade_C", "grade_G">>
FeatureColsChoices == {TrainedCols, <<"grade_B", "emp_length", "loan_amnt", "term">>}

FittedScaler ==
    [names |-> <<"loan_amnt", "term", "emp_length">>,
     mean |-> [loan_amnt |-> 40, term |-> 36, emp_length |-> 5]]
ScalerChoices ==
    {FittedScaler,
     [names |-> <<"loan_amnt", "emp_length">>,
      mean |-> [loan_amnt |-> 40, emp_length |-> 5]]}

NoTable == [columns |-> <<>>, rows |-> <<>>]
NoException == [stage |-> "", detail |-> ""]
NoRequest == [op |-> ""]
NoResponse == [status |-> 0, results |-> <<>>, error |-> ""]

\* limit: int = 100, line 242
DefaultLimit == 100
LimitSamples == {-1, 0, 1, 2, DefaultLimit}

\* the exception reading the log file may raise (lines 250-251)
ReadError == [stage |-> "readlines", detail |-> "OSError: input/output error"]

\* exceptions the library calls of predict may raise (lines 213, 214, 231)
Exceptions ==
    {[stage |-> "preprocess_api_data", detail |-> "KeyError: 'term'"],
     [stage |-> "predict_proba", detail |-> "ValueError: number of features"],
     [stage |-> "JSONResponse", detail |-> "ValueError: out of range float"]}

-----------------------------------------------------------------------------
(* predict, lines 201-237                                                  *)

\* request.headers.get("x-user-email", "guest"), lines 205 and 243
UserEmail(header) == IF header = <<>> THEN "guest" ELSE header[1]

\* borrowers: List[Borrower], line 202 with lines 54-77: every field is
\* required and none accepts null, so the request is answered 422 before
\* the handler runs.
Validates(body) ==
    \A k \in 1..Len(body) : \A f \in Range(BorrowerFields) :
        body[k][f] # Missing /\ body[k][f] # JsonNull

\* lines 218-225
Result(b, prob, user_email) ==
    [borrower |-> b,
     default_probability |-> Round3(prob),
     risk_level |-> map_risk_action(prob)[1],
     recommended_action |-> map_risk_action(prob)[2],
     user_email |-> user_email]

Min(a, b) == IF a < b THEN a ELSE b

\* The mutation scores the records last to first.
ScoreAllReversed(borrowers, ps, user_email) ==
    [k \in 1..Min(Len(borrowers), Len(ps)) |->
        Result(borrowers[Len(borrowers) + 1 - k], ps[k], user_email)]

\* lines 216-226: zip(borrowers, probs)
ScoreAll(borrowers, ps, user_email) ==
    [k \in 1..Min(Len(borrowers), Len(ps)) |->
        Result(borrowers[k], ps[k], user_email)]

\* The mutation writes the lines without the caller's identity.
LogLinesUntagged(lines, results) ==
    lines \o [k \in 1..Len(results) |->
                 [ts |-> Len(lines) + k, kind |-> "dict",
                  msg |-> [results[k] EXCEPT !.user_email = "guest"]]]

\* pred_logger.info(result), line 229 with lines 31-34: one line
\* "<asctime> - <result>" per record, appended.  The timestamp is the
\* ordinal of the line.
LogLines(lines, results) ==
    lines \o [k \in 1..Len(results) |->
                 [ts |-> Len(lines) + k, kind |-> "dict", msg |-> results[k]]]

Respond(status, results, error) ==
    [status |-> status, results |-> results, error |-> error]

\* The mutation returns the exception's text.
InternalErrorLeaky(e) == Respond(500, <<>>, e.detail)

\* lines 235-237
InternalError(e) == Respond(500, <<>>, "An unexpected error occurred")

\* lgb_model.predict_proba(df)[:, 1], line 214: the classifier is a fixed
\* function of a row of features
\* a row outside the sampled ones, or with a NaN (a missing value to the
\* classifier), gets the probability 0.5
Feature(cell) ==
    IF DOMAIN cell = {"b"} THEN (IF cell.b THEN 1 ELSE 0) ELSE NumVal(cell)

Features(row) == [c \in DOMAIN row |-> Feature(row[c])]

ProbaOf(model, row) ==
    IF \E c \in DOMAIN row : IsNull(row[c]) THEN 5000
    ELSE IF Features(row) \in DOMAIN model THEN model[Features(row)]
    ELSE 5000

predict_proba(model, t) == [k \in 1..Len(t.rows) |-> ProbaOf(model, t.rows[k])]

Predict(header, body) ==
    LET user_email == UserEmail(header)
        table == DataFrame(body)
    IN
    /\ Len(log) + Len(body) <= MaxLog
    /\ req' = [op |-> "predict", header |-> header, body |-> body]
    /\ IF ~Validates(body)
       THEN /\ resp' = Respond(422, <<>>, "field required")
            /\ calls' = <<>> /\ data' = NoTable /\ df' = NoTable
            /\ probs' = <<>> /\ log' = log /\ raised' = NoException
       ELSE IF HasNull(table)
       THEN /\ resp' = Respond(400, <<>>, "Please enter valid data for all fields")
            /\ calls' = <<>> /\ data' = table /\ df' = NoTable
            /\ probs' = <<>> /\ log' = log /\ raised' = NoException
       ELSE
         \E exc \in Exceptions \cup {NoException} :
            /\ raised' = exc
            /\ data' = table
            /\ IF exc.stage = "preprocess_api_data"
               THEN /\ resp' = InternalError(exc)
                    /\ calls' = <<"preprocess_api_data">> /\ df' = NoTable
                    /\ probs' = <<>> /\ log' = log
               ELSE
                 /\ df' = preprocess_api_data(table, scaler, feature_cols)
                 /\ calls' = <<"preprocess_api_data", "predict_proba">>
                 /\ probs' = IF exc.stage = "predict_proba" THEN <<>>
                              ELSE predict_proba(lgb_model, df')
                 /\ IF exc.stage = "predict_proba"
                    THEN /\ resp' = InternalError(exc)
                         /\ log' = log
                    ELSE \E results \in {ScoreAll(body, probs', user_email)} :
                         /\ log' = LogLines(log, results)
                         /\ resp' = IF exc.stage = "JSONResponse"
                                    THEN InternalError(exc)
                                    ELSE Respond(200, results, "")
    /\ UNCHANGED <<feature_cols, scaler, lgb_model, x, emp>>

-----------------------------------------------------------------------------
(* get_logs, lines 241-278.  The log file exists once line 31 has opened   *)
(* it, so the branch of lines 245-246 answers like an empty file.          *)

\* The mutation reads the whole file.
LastLinesAll(lines, limit) == lines

\* f.readlines()[-limit:], line 251
LastLines(lines, limit) ==
    LET n == Len(lines) IN
    IF limit > 0 THEN SubSeq(lines, (IF n > limit THEN n - limit ELSE 0) + 1, n)
    ELSE SubSeq(lines, Min(0 - limit, n) + 1, n)

Get(d, key) == IF key \in DOMAIN d THEN d[key] ELSE None

\* lines 254-258: a line without " - ", or whose text after it is no
\* literal, is skipped
Parses(line) == line.kind \in {"dict", "nondict"}

\* lines 253-272: parsed.get raises on a literal that is no dict, and the
\* line is skipped; a dict is kept when its user_email is the caller's
Keeps(line, user_email) ==
    /\ Parses(line)
    /\ line.kind = "dict"
    /\ Get(line.msg, "user_email") = user_email

\* lines 262-269
ParsedRecord(line) ==
    [timestamp |-> line.ts,
     borrower |-> Get(line.msg, "borrower"),
     default_probability |-> Get(line.msg, "default_probability"),
     risk_level |-> Get(line.msg, "risk_level"),
     recommended_action |-> Get(line.msg, "recommended_action"),
     user_email |-> Get(line.msg, "user_email")]

RECURSIVE Records(_, _)
Records(lines, user_email) ==
    IF lines = <<>> THEN <<>>
    ELSE (IF Keeps(Head(lines), user_email)
          THEN <<ParsedRecord(Head(lines))>> ELSE <<>>)
         \o Records(Tail(lines), user_email)

Reverse(q) == [k \in 1..Len(q) |-> q[Len(q) + 1 - k]]

GetLogs(header, limit, exc) ==
    /\ exc \in {NoException, ReadError}
    /\ req' = [op |-> "logs", header |-> header, limit |-> limit]
    /\ resp' = IF exc = ReadError THEN Respond(500, <<>>, "Failed to load logs")
               ELSE Respond(200,
                        Reverse(Records(LastLines(log, limit), UserEmail(header))),
                        "")
    /\ raised' = exc
    /\ calls' = <<>> /\ data' = NoTable /\ df' = NoTable /\ probs' = <<>>
    /\ UNCHANGED <<feature_cols, scaler, lgb_model, log, x, emp>>

-----------------------------------------------------------------------------
(* The service: startup (lines 17-38) and its two handlers                 *)

\* the row of features a sampled record leads to
FeaturesOf(b, sc, fcols) ==
    Features(preprocess_api_data(DataFrame(<<b>>), sc, fcols).rows[1])

\* contents of trained_credit_model.pkl: the probability of each row
ModelChoices(sc, fcols) ==
    {FeaturesOf(J1, sc, fcols) :> 2996 @@ FeaturesOf(J2, sc, fcols) :> 3000,
     FeaturesOf(J1, sc, fcols) :> 6996 @@ FeaturesOf(J2, sc, fcols) :> 7000,
     FeaturesOf(J1, sc, fcols) :> 7000 @@ FeaturesOf(J2, sc, fcols) :> 2996}

Init ==
    /\ feature_cols = TrainedCols
    /\ scaler = FittedScaler
    /\ lgb_model \in ModelChoices(FittedScaler, TrainedCols)
    /\ log = <<>>
    /\ req = NoRequest
    /\ resp = NoResponse
    /\ calls = <<>>
    /\ data = NoTable
    /\ df = NoTable
    /\ probs = <<>>
    /\ raised = NoException
    /\ x = <<>>
    /\ emp = 0

Bodies == SeqsUpTo(BodySamples, MaxBatch)

PredictRequest ==
    \E header \in Headers, body \in Bodies : Predict(header, body)

LogsRequest ==
    \E header \in Headers, limit \in LimitSamples, exc \in {NoException, ReadError} :
        GetLogs(header, limit, exc)

Next == PredictRequest \/ LogsRequest

Spec == Init /\ [][Next]_vars

-----------------------------------------------------------------------------
(* preprocess_api_data on its own: a table of records is drawn, then the   *)
(* value normalisations (lines 96-105) and the alignment (lines 107-124)   *)
(* run in turn, whatever artifacts were loaded.                            *)

InitPre ==
    /\ feature_cols \in FeatureColsChoices
    /\ scaler \in ScalerChoices
    /\ lgb_model = <<>>
    /\ log = <<>>
    /\ req = NoRequest
    /\ resp = NoResponse
    /\ calls = <<>>
    /\ data \in {DataFrame(b) : b \in SeqsUpTo(PreRecords, MaxPreBatch)}
    /\ df = NoTable
    /\ probs = <<>>
    /\ raised = NoException
    /\ x = <<>>
    /\ emp = 0

NormalizeStep ==
    /\ calls = <<>>
    /\ df' = Normalize(data)
    /\ calls' = <<"normalize">>
    /\ UNCHANGED <<feature_cols, scaler, lgb_model, log, req, resp, data, probs,
                   raised, x, emp>>

AlignStep ==
    /\ calls = <<"normalize">>
    /\ df' = Align(df, scaler, feature_cols)
    /\ calls' = <<"normalize", "align">>
    /\ UNCHANGED <<feature_cols, scaler, lgb_model, log, req, resp, data, probs,
                   raised, x, emp>>

NextPre == NormalizeStep \/ AlignStep

SpecPre == InitPre /\ [][NextPre]_vars

-----------------------------------------------------------------------------
(* clean_emp_length on its own, over every string of the alphabet          *)

InitEmp ==
    /\ feature_cols = TrainedCols
    /\ scaler = FittedScaler
    /\ lgb_model = <<>>
    /\ log = <<>>
    /\ req = NoRequest
    /\ resp = NoResponse
    /\ calls = <<>>
    /\ data = NoTable
    /\ df = NoTable
    /\ probs = <<>>
    /\ raised = NoException
    /\ x \in EmpStrings
    /\ emp = 0

CleanEmpLength ==
    /\ calls = <<>>
    /\ emp' = clean_emp_length(x)
    /\ calls' = <<"clean_emp_length">>
    /\ UNCHANGED <<feature_cols, scaler, lgb_model, log, req, resp, data, df,
                   probs, raised, x>>

NextEmp == CleanEmpLength

SpecEmp == InitEmp /\ [][NextEmp]_vars

-----------------------------------------------------------------------------
(* get_logs over a log file found at startup: up to MaxLogLines lines,     *)
(* written by one caller, by another, by both in turn, or damaged.         *)

LogPatterns == {"alice", "guest", "alternate", "damaged"}

PatternLine(k, pat) ==
    LET entry(user) == [ts |-> k, kind |-> "dict", msg |-> Result(J1, 2996, user)]
    IN CASE pat = "alice" -> entry("alice")
         [] pat = "guest" -> entry("guest")
         [] pat = "alternate" -> entry(IF k % 2 = 1 THEN "alice" ELSE "guest")
         [] pat = "damaged" ->
              CASE k % 5 = 0 -> [ts |-> k, kind |-> "nosep", msg |-> [raw |-> "x"]]
                [] k % 5 = 1 -> [ts |-> k, kind |-> "badliteral", msg |-> [raw |-> "{"]]
                [] k % 5 = 2 -> [ts |-> k, kind |-> "nondict", msg |-> [raw |-> "[1]"]]
                [] k % 5 = 3 -> [ts |-> k, kind |-> "dict",
                                 msg |-> [risk_level |-> "Low risk"]]
                [] OTHER -> entry("alice")

InitLogs ==
    /\ feature_cols = TrainedCols
    /\ scaler = FittedScaler
    /\ lgb_model = <<>>
    /\ log \in {[k \in 1..n |-> PatternLine(k, pat)] :
                   n \in 0..MaxLogLines, pat \in LogPatterns}
    /\ req = NoRequest
    /\ resp = NoResponse
    /\ calls = <<>>
    /\ data = NoTable
    /\ df = NoTable
    /\ probs = <<>>
    /\ raised = NoException
    /\ x = <<>>
    /\ emp = 0

NextLogs == LogsRequest

SpecLogs == InitLogs /\ [][NextLogs]_vars

-----------------------------------------------------------------------------
(* Properties                                                              *)

Scored == req.op = "predict" /\ resp.status = 200

Low == <<"Low risk", "Send reminder">>
Medium == <<"Medium risk", "Call borrower">>
High == <<"High risk", "Prioritize collection / restructure loan">>

TierOf(result) == <<result.risk_level, result.recommended_action>>

\* C1: each scored record's tier and action follow from the classifier's
\* unrounded probability p: Low iff p < 0.3, Medium iff 0.3 <= p < 0.7, High
\* iff p >= 0.7; the reported probability is p rounded to 3 decimals, and
\* the rounding has no part in the tier.
C1_TierFromUnrounded ==
    Scored =>
        \A k \in 1..Len(resp.results) :
            LET p == probs[k]
                r == resp.results[k]
            IN /\ TierOf(r) \in {Low, Medium, High}
               /\ TierOf(r) = Low <=> p < 3000
               /\ TierOf(r) = Medium <=> (3000 <= p /\ p < 7000)
               /\ TierOf(r) = High <=> p >= 7000
               /\ r.default_probability % 10 = 0
               /\ r.default_probability - p \in -5..5

\* a record scored Low whose reported probability is 0.300, and one scored
\* High at exactly 0.7
C1_Witness ==
    /\ Scored
    /\ \E k \in 1..Len(resp.results) :
          /\ probs[k] < 3000
          /\ resp.results[k].default_probability = 3000
          /\ TierOf(resp.results[k]) = Low
    /\ \E k \in 1..Len(resp.results) :
          probs[k] = 7000 /\ TierOf(resp.results[k]) = High

NullOrMissing(body) ==
    \E k \in 1..Len(body) : \E f \in Range(BorrowerFields) :
        body[k][f] \in {NaN, Missing, JsonNull}

\* C2: a predict request whose batch has a null or missing field anywhere
\* is answered with an error and no result, runs neither the transformer
\* nor the classifier, and leaves the log as it was.
C2_NullRejectsBatch ==
    [][(req'.op = "predict" /\ NullOrMissing(req'.body)) =>
          /\ resp'.status \in {400, 422}
          /\ resp'.results = <<>>
          /\ resp'.error # ""
          /\ calls' = <<>>
          /\ probs' = <<>>
          /\ log' = log]_vars

\* a batch of a valid record followed by one with a NaN was rejected
C2_Witness ==
    /\ req.op = "predict"
    /\ Len(req.body) = 2
    /\ ~NullOrMissing(<<req.body[1]>>)
    /\ NullOrMissing(<<req.body[2]>>)
    /\ Validates(req.body)
    /\ resp.status = 400

\* C3: a scored batch of N records gets N results, the k-th for the k-th
\* record.
C3_OrderPreserved ==
    Scored =>
        /\ Len(resp.results) = Len(req.body)
        /\ \A k \in 1..Len(req.body) : resp.results[k].borrower = req.body[k]

C3_Witness ==
    /\ Scored
    /\ Len(req.body) = 2
    /\ req.body[1] # req.body[2]
    /\ Len(resp.results) = 2

\* the column names the table has after one-hot encoding: the numeric
\* columns and one <column>_<value> per value of an object column
EncodedNames(t) ==
    {c \in Range(t.columns) : \E r \in 1..Len(t.rows) : ~IsObject(t.rows[r][c])}
    \cup {DummyName(c, t.rows[r][c].s) :
            <<c, r>> \in {cr \in Range(t.columns) \X (1..Len(t.rows)) :
                             IsObject(t.rows[cr[2]][cr[1]])}}

Aligned == calls = <<"normalize", "align">>

\* C4: whatever the batch, the table preprocess_api_data returns has the
\* trained columns, all of them and only them, in the trained order, a row
\* per record; a trained column the encoding did not produce holds 0.
C4_AlignedColumns ==
    Aligned =>
        /\ df.columns = feature_cols
        /\ Len(df.rows) = Len(data.rows)
        /\ \A r \in 1..Len(df.rows) :
              /\ DOMAIN df.rows[r] = Range(feature_cols)
              /\ \A c \in Range(feature_cols) \ EncodedNames(Normalize(data)) :
                    df.rows[r][c] = Int64(0)

\* a batch whose encoding lacks a trained column and has an untrained one
C4_Witness ==
    /\ Aligned
    /\ Len(df.rows) = 2
    /\ Range(feature_cols) \ EncodedNames(Normalize(data)) # {}
    /\ EncodedNames(Normalize(data)) \ Range(feature_cols) # {}
    /\ "grade_B" \in EncodedNames(Normalize(data))

\* C5: the log only grows at its end; a scored batch of N records adds N
\* lines, the k-th holding the k-th result tagged with the caller's
\* identity (the x-user-email header, "guest" without it).
C5_AppendOnly ==
    [][/\ Len(log') >= Len(log)
       /\ SubSeq(log', 1, Len(log)) = log
       /\ (req'.op = "logs" => log' = log)
       /\ (req'.op = "predict" /\ resp'.status = 200) =>
             /\ Len(log') = Len(log) + Len(req'.body)
             /\ \A k \in 1..Len(req'.body) :
                   /\ log'[Len(log) + k].msg = resp'.results[k]
                   /\ log'[Len(log) + k].msg.user_email = UserEmail(req'.header)
                   /\ log'[Len(log) + k].msg.borrower = req'.body[k]]_vars

\* a log written by two callers, the later one named by its header
C5_Witness ==
    /\ Scored
    /\ req.header = <<"alice">>
    /\ Len(log) = 2
    /\ log[1].msg.user_email = "guest"
    /\ log[2].msg.user_email = "alice"

\* C6: get_logs with limit 100 returns at most 100 entries, and every entry
\* it returns carries the requesting caller's identity.
C6_LimitAndOwner ==
    req.op = "logs" =>
        /\ req.limit = DefaultLimit => Len(resp.results) <= DefaultLimit
        /\ \A k \in 1..Len(resp.results) :
              resp.results[k].user_email = UserEmail(req.header)

\* a log of more than 100 lines read with limit 100
C6_Witness ==
    /\ req.op = "logs"
    /\ req.limit = DefaultLimit
    /\ Len(log) > DefaultLimit
    /\ Len(resp.results) = DefaultLimit
    /\ req.header = <<"alice">>

\* C7: when a library call of predict raises, the answer is the generic
\* internal error: status 500, the fixed message, no result, nothing of the
\* exception.
C7_GenericError ==
    (req.op = "predict" /\ raised # NoException) =>
        /\ resp.status = 500
        /\ resp.error = "An unexpected error occurred"
        /\ resp.error # raised.detail
        /\ resp.results = <<>>

C7_Witness ==
    /\ req.op = "predict"
    /\ Len(req.body) = 2
    /\ raised.stage = "predict_proba"
    /\ resp.status = 500

Normalized == calls = <<"normalize">>

AllDigits(v) == v # <<>> /\ \A k \in 1..Len(v) : IsDigit(v[k])

\* v is "<n> months" for a number n
IsMonths(v) ==
    /\ Len(v) > Len(MonthsSuffix)
    /\ SubSeq(v, Len(v) - Len(MonthsSuffix) + 1, Len(v)) = MonthsSuffix
    /\ AllDigits(SubSeq(v, 1, Len(v) - Len(MonthsSuffix)))

MonthsOf(v) == DecimalValue(SubSeq(v, 1, Len(v) - Len(MonthsSuffix)))

\* v does not start with a number
NoLeadingNumber(v) == LStrip(v) = <<>> \/ ~IsDigit(Head(LStrip(v)))

\* C8: after the term normalisation every record whose term is "<n> months"
\* holds the integer n, and every record whose term has no leading number
\* holds the term it came with.
C8_TermPerRecord ==
    Normalized =>
        \A r \in 1..Len(data.rows) :
            LET v == data.rows[r]["term"].s IN
            /\ IsMonths(v) => df.rows[r]["term"] = Int64(MonthsOf(v))
            /\ NoLeadingNumber(v) => df.rows[r]["term"] = data.rows[r]["term"]

Cleaned == calls = <<"clean_emp_length">>

Has(v, ch) == \E k \in 1..Len(v) : v[k] = ch

Has10Plus(v) ==
    \E k \in 1..(Len(v) - 2) : v[k] = "1" /\ v[k + 1] = "0" /\ v[k + 2] = "+"

RECURSIVE Pow10(_)
Pow10(n) == IF n = 0 THEN 1 ELSE 10 * Pow10(n - 1)

RECURSIVE SumDigits(_, _)
SumDigits(v, k) ==
    IF k > Len(v) THEN 0
    ELSE DigitVal(v[k]) * Pow10(Len(v) - k) + SumDigits(v, k + 1)

\* tok is an optional sign followed by digits
IsIntegerText(tok) ==
    \/ AllDigits(tok)
    \/ Len(tok) > 1 /\ tok[1] \in {"+", "-"} /\ AllDigits(Tail(tok))

ValueOfText(tok) ==
    IF tok[1] = "-" THEN 0 - SumDigits(Tail(tok), 1)
    ELSE IF tok[1] = "+" THEN SumDigits(Tail(tok), 1)
    ELSE SumDigits(tok, 1)

\* the characters a..b of v are its first whitespace-separated token
IsLeadingToken(v, a, b) ==
    /\ 1 <= a /\ a <= b /\ b <= Len(v)
    /\ \A k \in 1..(a - 1) : v[k] = " "
    /\ \A k \in a..b : v[k] # " "
    /\ b = Len(v) \/ v[b + 1] = " "

\* the leading token of v spells an integer
LeadsWithInteger(v) ==
    \E a \in 1..Len(v), b \in 1..Len(v) :
        IsLeadingToken(v, a, b) /\ IsIntegerText(SubSeq(v, a, b))

\* the leading token of v spells the integer n
LeadsWith(v, n) ==
    \E a \in 1..Len(v), b \in 1..Len(v) :
        /\ IsLeadingToken(v, a, b)
        /\ IsIntegerText(SubSeq(v, a, b))
        /\ n = ValueOfText(SubSeq(v, a, b))

\* the leading token of v is "10+", or starts with "<"
NamedForm(v) ==
    \E a \in 1..Len(v), b \in 1..Len(v) :
        /\ IsLeadingToken(v, a, b)
        /\ v[a] = "<" \/ SubSeq(v, a, b) = <<"1", "0", "+">>

\* C9 as claimed: "< 1 year" gives 0 and "10+ years" gives 10; any other
\* value gives the integer its leading token spells, and 0 when the leading
\* token spells none.  Values that merely begin like the two named ones
\* are left out of "any other value".
C9_LeadingTokenOnly ==
    Cleaned =>
        /\ x = ELt1 => emp = 0
        /\ x = E10 => emp = 10
        /\ ~NamedForm(x) =>
              IF LeadsWithInteger(x) THEN LeadsWith(x, emp) ELSE emp = 0

\* C9 amended: a value holding both "<" and "1" gives 0; any other value
\* holding "10+" gives 10; any other value gives the integer its leading
\* token spells, and 0 when the leading token spells none.
C9_EmpLength ==
    Cleaned =>
        /\ x = ELt1 => emp = 0
        /\ x = E10 => emp = 10
        /\ x = E5 => emp = 5
        /\ IF Has(x, "<") /\ Has(x, "1") THEN emp = 0
           ELSE IF Has10Plus(x) THEN emp = 10
           ELSE IF LeadsWithInteger(x) THEN LeadsWith(x, emp)
           ELSE emp = 0

\* "10+" after other text was cleaned to 10, though its leading token
\* spells no integer
C9_Witness ==
    /\ Cleaned
    /\ Has10Plus(x)
    /\ x[1] = "y"
    /\ emp = 10

\* C10: get_logs with a limit L >= 0 returns at most L entries, all of them
\* among the last L lines of the log, so none for L = 0.
C10_AtMostLimit ==
    (req.op = "logs" /\ req.limit >= 0 /\ resp.status = 200) =>
        /\ Len(resp.results) <= req.limit
        /\ \A k \in 1..Len(resp.results) :
              resp.results[k].timestamp > Len(log) - req.limit
        /\ req.limit = 0 => resp.results = <<>>

====
